---- MODULE Spec2Model ----
(***************************************************************************)
(* A model of the plugin RPC protocol of packages/plugin-ext               *)
(* (src/packages/plugin-ext/src/common/rpc-protocol.ts): two               *)
(* RPCProtocolImpl engines, each with its RPCMultiplexer, joined by an     *)
(* order-preserving, exactly-once MessageConnection.                       *)
(*                                                                         *)
(* Every handler of the source is one atomic step: a proxy call, a         *)
(* cancellation of the caller's token, dispose(), the setImmediate         *)
(* callback sendAccumulated, the connection's onMessage listener (which    *)
(* dispatches a whole batch) and the then-callbacks of a handler           *)
(* invocation.                                                             *)
(***************************************************************************)
EXTENDS Naturals, Sequences, FiniteSets, TLC

\* ------------------------------------------------------------------ bounds
\* Number of proxy calls the two engines make together.
MaxCalls == 2

\* ------------------------------------------------------------- JS values
\* A JavaScript value is a record [t, v]: its type tag and its payload.
Undefined == [t |-> "undefined", v |-> ""]
Null == [t |-> "null", v |-> ""]
Str(s) == [t |-> "string", v |-> s]
\* A CancellationToken object; v names the token.
Token(n) == [t |-> "token", v |-> n]
\* An Error instance.
ErrorObj(name, message) == [t |-> "Error", v |-> message, name |-> name]

\* JavaScript truthiness of the values the model uses.
Truthy(x) == \/ x.t = "string" /\ x.v # ""
             \/ x.t \in {"token", "Error"}

\* msg.f of a parsed message: a key the text does not carry reads undefined.
Get(msg, f) == IF f \in DOMAIN msg THEN msg[f] ELSE Undefined

\* The record r extended with the key k.
With(r, k, val) == [f \in DOMAIN r \cup {k} |-> IF f = k THEN val ELSE r[f]]

Last(q) == q[Len(q)]
Front(q) == SubSeq(q, 1, Len(q) - 1)

\* MessageType
Request == 1
Reply == 2
ReplyErr == 3
Cancel == 4

Engines == {1, 2}
Peer(e) == 3 - e

\* The marker remoteCall appends in place of the caller's token.
Marker == Str("add.cancellation.token")

\* ------------------------------------------------------ ObjectsTransferrer
\* JSON.stringify(value, replacer) followed by JSON.parse(text, reviver) for
\* the values that travel in args and res here: strings and null survive,
\* an undefined array element is written as null.
stringifyElement(x) == IF x.t = "undefined" THEN Null ELSE x

stringifyArgs(args) == [i \in 1..Len(args) |-> stringifyElement(args[i])]

\* ---------------------------------------------------------- MessageFactory
\* A variant that never writes the hostID prefix.
prefixNone(r, messageToSendHostId) == r

\* The keys of the JSON text each constructor writes; the hostID prefix is
\* written only for a truthy messageToSendHostId.
prefix(r, messageToSendHostId) ==
    IF Truthy(messageToSendHostId) THEN With(r, "hostID", messageToSendHostId)
    ELSE r

cancel(req, messageToSendHostId) ==
    prefix([type |-> Cancel, id |-> req], messageToSendHostId)

request(req, rpcId, method, args, messageToSendHostId) ==
    prefix([type |-> Request, id |-> req, proxyId |-> rpcId, method |-> method,
            args |-> stringifyArgs(args)], messageToSendHostId)

\* A variant that writes the res key whatever the result.
replyOKAlwaysRes(req, res, messageToSendHostId) ==
    prefix([type |-> Reply, id |-> req, res |-> stringifyElement(res)],
           messageToSendHostId)

replyOK(req, res, messageToSendHostId) ==
    IF res.t = "undefined"
    THEN prefix([type |-> Reply, id |-> req], messageToSendHostId)
    ELSE prefix([type |-> Reply, id |-> req, res |-> stringifyElement(res)],
                messageToSendHostId)

transformErrorForSerialization(error) ==
    [isError |-> TRUE, name |-> error.name, message |-> error.v]

replyErr(req, err0, messageToSendHostId) ==
    LET err == IF err0.t = "string" THEN ErrorObj("Error", err0.v) ELSE err0
    IN  IF err.t = "Error"
        THEN prefix([type |-> ReplyErr, id |-> req,
                     err |-> transformErrorForSerialization(err)],
                    messageToSendHostId)
        ELSE prefix([type |-> ReplyErr, id |-> req, err |-> Null],
                    messageToSendHostId)

setHostIDMessage(remoteHostId) == [setHostID |-> remoteHostId]

\* ------------------------------------------------------------ the handlers
\* Identifiers: "A" is the one a side registers with set, "B" is never
\* registered.
ProxyIds == {"A", "B"}

\* The members of the instance registered for "A"; "$x" is a member that is
\* not a function.
Functions == {"$greet", "$void", "$null", "$fail", "$reject", "$text",
              "$wait"}

Members == Functions \cup {"$x"}

canceled == ErrorObj("Canceled", "Canceled")

closed == ErrorObj("Error", "connection is closed")

\* What method.apply(actor, args) comes to: a promise fulfilled with the
\* value returned, or rejected with the value thrown or rejected.  "$wait"
\* observes the token it is given and gives up once it is cancelled.
apply(method, args, cancelledTokens) ==
    CASE method = "$greet" ->
           [state |-> "fulfilled",
            value |-> Str("hi " \o (IF Len(args) > 0 /\ args[1].t = "string"
                                    THEN args[1].v ELSE "undefined"))]
      [] method = "$void" -> [state |-> "fulfilled", value |-> Undefined]
      [] method = "$null" -> [state |-> "fulfilled", value |-> Null]
      [] method = "$fail" ->
           [state |-> "rejected", value |-> ErrorObj("Error", "boom")]
      [] method = "$reject" ->
           [state |-> "rejected", value |-> ErrorObj("TypeError", "bad")]
      [] method = "$text" -> [state |-> "rejected", value |-> Str("oops")]
      [] method = "$wait" ->
           IF Len(args) > 0 /\ Last(args).t = "token"
              /\ Last(args).v \in cancelledTokens
           THEN [state |-> "rejected", value |-> canceled]
           ELSE [state |-> "fulfilled", value |-> Str("done")]

\* ------------------------------------------------------------- the engine
\* One RPCProtocolImpl with its RPCMultiplexer, after construction.
\*   disposed, muxDisposed   toDispose.disposed of the engine, the multiplexer
\*   locals                  the identifiers that have a registered instance
\*   chained                 those whose instance is in the engine's toDispose
\*   instanceDisposed        those whose instance has been disposed
\*   promises                the futures remoteCall returned, by call id
\*   running                 handler invocations whose then-callbacks are due
\*   tokenCancelled          ids whose cancellationTokenSource was cancelled
\*   userToken               the caller's own CancellationTokenSource
\*   scheduled               queued setImmediate(sendAccumulated) callbacks
\*   handed, transmitted, received, requests, raised, ncalls, made, rejections,
\*   obtained:
\*     what an observer sees: the messages send accepted, the batches given
\*     to connection.send, the messages the connection listener gave to
\*     receiveOneMessage, the requests received (registered: the
\*     identifier had an instance; disposedInstance: the instance had been
\*     disposed; called: a handler was invoked), the errors thrown out of
\*     a callback, the proxy calls made (made: those sent, with the
\*     arguments the caller gave),
\*     the calls rejected on the spot and the proxies the caller holds.
multiplexerStart(remoteHostId) ==
    IF Truthy(remoteHostId) THEN <<setHostIDMessage(remoteHostId)>> ELSE <<>>

newEngine(remoteHostID) ==
    [disposed |-> FALSE,
     muxDisposed |-> FALSE,
     locals |-> {},
     chained |-> {},
     instanceDisposed |-> {},
     proxies |-> {},
     lastMessageId |-> 0,
     cancellationTokenSources |-> {},
     tokenCancelled |-> {},
     pendingRPCReplies |-> {},
     messageToSendHostId |-> Undefined,
     remoteHostID |-> remoteHostID,
     messagesToSend |-> multiplexerStart(remoteHostID),
     scheduled |-> Len(multiplexerStart(remoteHostID)),
     promises |-> << >>,
     running |-> {},
     userToken |-> [cancelled |-> FALSE, listeners |-> << >>],
     handed |-> multiplexerStart(remoteHostID),
     transmitted |-> << >>,
     received |-> << >>,
     requests |-> << >>,
     raised |-> 0,
     ncalls |-> 0,
     made |-> << >>,
     rejections |-> << >>,
     obtained |-> {}]

\* ---------------------------------------------------------- RPCMultiplexer
\* A variant that schedules a flush for every message.
sendAlwaysSchedules(s, msg) ==
    IF s.muxDisposed
    THEN [s EXCEPT !.raised = @ + 1]
    ELSE [s EXCEPT !.scheduled = @ + 1,
                   !.messagesToSend = Append(@, msg),
                   !.handed = Append(@, msg)]

\* send(msg): throws once disposed; the first message of an empty buffer
\* schedules sendAccumulated.
send(s, msg) ==
    IF s.muxDisposed
    THEN [s EXCEPT !.raised = @ + 1]
    ELSE [s EXCEPT !.scheduled = IF Len(s.messagesToSend) = 0 THEN @ + 1 ELSE @,
                   !.messagesToSend = Append(@, msg),
                   !.handed = Append(@, msg)]

\* A variant that does not empty the buffer.
sendAccumulatedKeeps(s) ==
    [s EXCEPT !.scheduled = @ - 1,
              !.transmitted = Append(@, s.messagesToSend)]

\* sendAccumulated(): hands the buffer to connection.send and empties it.
sendAccumulated(s) ==
    [s EXCEPT !.messagesToSend = << >>,
              !.scheduled = @ - 1,
              !.transmitted = Append(@, s.messagesToSend)]

\* ------------------------------------------------------------------ Deferred
\* resolve and reject of a Deferred: the promise settles once.
settle(s, callId, state, value) ==
    [s EXCEPT !.promises[callId] =
        [state |-> IF @.state = "pending" THEN state ELSE @.state,
         value |-> IF @.state = "pending" THEN value ELSE @.value,
         settles |-> @.settles + 1]]

RECURSIVE rejectAll(_, _)
rejectAll(s, ids) ==
    IF ids = {} THEN s
    ELSE LET id == CHOOSE i \in ids : TRUE
         IN  rejectAll(settle(s, id, "rejected", closed), ids \ {id})

\* ---------------------------------------------------------- RPCProtocolImpl
\* A variant that numbers a call by the calls still pending.
nextCallIdPending(s) == ToString(Cardinality(s.pendingRPCReplies) + 1)

\* String(++this.lastMessageId)
nextCallId(s) == ToString(s.lastMessageId + 1)

\* A variant that clears the pending table without rejecting.
disposeHookNoReject(s) ==
    [s EXCEPT !.proxies = {}, !.pendingRPCReplies = {}]

\* The dispose hook the constructor registers: clears the proxy cache,
\* rejects every pending reply, clears the pending table.
disposeHook(s) ==
    [rejectAll(s, s.pendingRPCReplies) EXCEPT !.proxies = {},
                                              !.pendingRPCReplies = {}]

\* RPCMultiplexer.dispose(): empties the buffer, stops listening.
multiplexerDispose(s) ==
    IF s.muxDisposed THEN s
    ELSE [s EXCEPT !.muxDisposed = TRUE, !.messagesToSend = << >>]

\* dispose(): the collection disposes, last pushed first, the unregistrations
\* and the instances set pushed, the dispose hook and the multiplexer; a
\* disposed collection does nothing.
dispose(s) ==
    IF s.disposed THEN s
    ELSE [multiplexerDispose(disposeHook(
              [s EXCEPT !.locals = {},
                        !.instanceDisposed = @ \cup s.chained,
                        !.chained = {}]))
            EXCEPT !.disposed = TRUE]

\* A variant of the instance's dispose() that also unregisters it.
disposeInstanceUnregisters(s, identifier) ==
    [s EXCEPT !.chained = @ \ {identifier},
              !.instanceDisposed = @ \cup {identifier},
              !.locals = @ \ {identifier}]

\* dispose() of a registered instance, called by its owner: the collection
\* drops the instance it was given and the instance disposes itself.
disposeInstance(s, identifier) ==
    [s EXCEPT !.chained = @ \ {identifier},
              !.instanceDisposed = @ \cup {identifier}]

\* What a throw statement and a normal return leave: the engine, and the
\* error thrown at the caller (undefined after a normal return).
throw(s, error) == [s |-> s, thrown |-> error]

return(s) == [s |-> s, thrown |-> Undefined]

\* getProxy(proxyId): caches one proxy per identifier.
getProxy(s, proxyId) ==
    IF s.disposed THEN throw(s, closed)
    ELSE return([s EXCEPT !.proxies = @ \cup {proxyId},
                          !.obtained = @ \cup {proxyId}])

\* The instances given to set: an object with a dispose method, and one
\* without.
Instances == {"disposable", "plain"}

\* A variant of set without the isDisposed test.
setUnguarded(s, identifier, instance) ==
    return([s EXCEPT !.locals = @ \cup {identifier}])

\* set(identifier, instance): registers the new instance, and pushes it to
\* toDispose when it is a Disposable.
set(s, identifier, instance) ==
    IF s.disposed THEN throw(s, closed)
    ELSE return([s EXCEPT !.locals = @ \cup {identifier},
                          !.instanceDisposed = @ \ {identifier},
                          !.chained = IF instance = "disposable"
                                      THEN @ \cup {identifier} ELSE @])

\* A variant that allocates the call id before it gives up.
rejectAfterAllocation(s, error) ==
    [s |-> [s EXCEPT !.lastMessageId = @ + 1], id |-> "", error |-> error,
     thrown |-> Undefined]

\* return Promise.reject(error): the engine is left as it is and nothing is
\* thrown; the caller gets a promise that is already rejected.
reject(s, error) ==
    [s |-> s, id |-> "", error |-> error, thrown |-> Undefined]

\* remoteCall(proxyId, methodName, args): the engine after the call and the
\* promise the call returns: ret.id names the promise of a call that was
\* sent, ret.error is the reason of a promise rejected on the spot,
\* ret.thrown what the call throws at its caller.
remoteCall(s, proxyId, methodName, args) ==
    LET hasToken == Len(args) > 0 /\ Last(args).t = "token"
        rest == IF hasToken THEN Front(args) ELSE args
        callId == nextCallId(s)
        sent == IF hasToken THEN Append(rest, Marker) ELSE rest
        s1 == [s EXCEPT !.lastMessageId = @ + 1,
                        !.userToken.listeners =
                            IF hasToken THEN Append(@, callId) ELSE @,
                        !.pendingRPCReplies = @ \cup {callId},
                        !.promises = With(@, callId,
                            [state |-> "pending", value |-> Undefined,
                             settles |-> 0])]
    IN  IF s.disposed
        THEN reject(s, closed)
        ELSE IF hasToken /\ s.userToken.cancelled
        THEN reject(s, canceled)
        ELSE [s |-> send(s1, request(callId, proxyId, methodName, sent,
                                     s.messageToSendHostId)),
              id |-> callId, error |-> Undefined, thrown |-> Undefined]

\* A variant that names the id of the call to come.
onCancellationRequestedNext(s, callId) ==
    send(s, cancel(nextCallId(s), s.messageToSendHostId))

\* A variant that reads the call id when the token fires.
onCancellationRequestedLatest(s, callId) ==
    send(s, cancel(ToString(s.lastMessageId), s.messageToSendHostId))

\* The listener remoteCall subscribes to the caller's token.
onCancellationRequested(s, callId) ==
    send(s, cancel(callId, s.messageToSendHostId))

\* cancel() of the caller's CancellationTokenSource: fires the listeners once,
\* in subscription order.
RECURSIVE fire(_, _)
fire(s, listeners) ==
    IF listeners = << >> THEN s
    ELSE fire(onCancellationRequested(s, Head(listeners)), Tail(listeners))

cancelUserToken(s) ==
    IF s.userToken.cancelled THEN s
    ELSE fire([s EXCEPT !.userToken.cancelled = TRUE], s.userToken.listeners)

\* A variant that cancels every source, whatever the id.
receiveCancelAny(s, msg) ==
    [s EXCEPT !.tokenCancelled = @ \cup s.cancellationTokenSources]

\* A variant that cancels the token and drops the source.
receiveCancelDropsSource(s, msg) ==
    IF msg.id \in s.cancellationTokenSources
    THEN [s EXCEPT !.tokenCancelled = @ \cup {msg.id},
                   !.cancellationTokenSources = @ \ {msg.id}]
    ELSE s

\* receiveCancel(msg)
receiveCancel(s, msg) ==
    IF msg.id \in s.cancellationTokenSources
    THEN [s EXCEPT !.tokenCancelled = @ \cup {msg.id}]
    ELSE s

\* A variant without the typeof method test: a member that is no function
\* yields undefined.
invokeHandlerUnchecked(s, proxyId, methodName, args) ==
    IF proxyId \notin s.locals
    THEN [state |-> "rejected",
          value |-> ErrorObj("Error", "Unknown actor " \o proxyId)]
    ELSE IF methodName \notin Functions
    THEN [state |-> "fulfilled", value |-> Undefined]
    ELSE [state |-> "called", value |-> Undefined]

\* doInvokeHandler / invokeHandler: the promise of the invocation; a throw
\* becomes a rejected promise.
invokeHandler(s, proxyId, methodName, args) ==
    IF proxyId \notin s.locals
    THEN [state |-> "rejected",
          value |-> ErrorObj("Error", "Unknown actor " \o proxyId)]
    ELSE IF methodName \notin Functions
    THEN [state |-> "rejected",
          value |-> ErrorObj("Error", "Unknown method " \o methodName
                                       \o " on actor " \o proxyId)]
    ELSE [state |-> "called", value |-> Undefined]

\* receiveRequest(msg): null arguments become undefined, the marker becomes
\* the token of a fresh source, the handler is invoked; the then-callbacks
\* run later (thenCallbacks).
receiveRequest(s, msg) ==
    LET callId == msg.id
        args0 == [i \in 1..Len(msg.args) |->
                    IF msg.args[i].t = "null" THEN Undefined ELSE msg.args[i]]
        addToken == Len(args0) > 0 /\ Last(args0) = Marker
        args == IF addToken THEN Append(Front(args0), Token(callId)) ELSE args0
        invocation == invokeHandler(s, msg.proxyId, msg.method, args)
    IN  [s EXCEPT !.cancellationTokenSources =
                      IF addToken THEN @ \cup {callId} ELSE @,
                  !.tokenCancelled = IF addToken THEN @ \ {callId} ELSE @,
                  !.requests = Append(@, [id |-> callId,
                                          proxyId |-> msg.proxyId,
                                          method |-> msg.method,
                                          args |-> args,
                                          registered |->
                                              msg.proxyId \in s.locals,
                                          disposedInstance |->
                                              msg.proxyId
                                                  \in s.instanceDisposed,
                                          called |->
                                              invocation.state = "called"]),
                  !.running = @ \cup {[id |-> callId, method |-> msg.method,
                                       args |-> args,
                                       invocation |-> invocation]}]

\* A variant of the then-callbacks that leaves the cancellation source in
\* the table.
thenCallbacksKeepSource(s, r) ==
    LET outcome == IF r.invocation.state = "called"
                   THEN apply(r.method, r.args, s.tokenCancelled)
                   ELSE r.invocation
        s1 == [s EXCEPT !.running = @ \ {r}]
    IN  IF outcome.state = "fulfilled"
        THEN send(s1, replyOK(r.id, outcome.value, s.messageToSendHostId))
        ELSE send(s1, replyErr(r.id, outcome.value, s.messageToSendHostId))

\* The then-callbacks of receiveRequest for the invocation r, once its
\* promise has settled.
thenCallbacks(s, r) ==
    LET outcome == IF r.invocation.state = "called"
                   THEN apply(r.method, r.args, s.tokenCancelled)
                   ELSE r.invocation
        s1 == [s EXCEPT !.running = @ \ {r},
                        !.cancellationTokenSources = @ \ {r.id}]
    IN  IF outcome.state = "fulfilled"
        THEN send(s1, replyOK(r.id, outcome.value, s.messageToSendHostId))
        ELSE send(s1, replyErr(r.id, outcome.value, s.messageToSendHostId))

\* A variant that resolves without the result.
receiveReplyNoResult(s, msg) ==
    IF msg.id \notin s.pendingRPCReplies THEN s
    ELSE settle([s EXCEPT !.pendingRPCReplies = @ \ {msg.id}],
                msg.id, "resolved", Undefined)

\* receiveReply(msg)
receiveReply(s, msg) ==
    IF msg.id \notin s.pendingRPCReplies THEN s
    ELSE settle([s EXCEPT !.pendingRPCReplies = @ \ {msg.id}],
                msg.id, "resolved", Get(msg, "res"))

\* A variant that leaves the entry in the pending table.
receiveReplyErrKeepsEntry(s, msg) ==
    IF msg.id \notin s.pendingRPCReplies THEN s
    ELSE settle(s, msg.id, "rejected",
                IF "isError" \in DOMAIN Get(msg, "err") /\ msg.err.isError
                THEN ErrorObj(msg.err.name, msg.err.message)
                ELSE Undefined)

\* receiveReplyErr(msg)
receiveReplyErr(s, msg) ==
    IF msg.id \notin s.pendingRPCReplies THEN s
    ELSE settle([s EXCEPT !.pendingRPCReplies = @ \ {msg.id}],
                msg.id, "rejected",
                IF "isError" \in DOMAIN Get(msg, "err") /\ msg.err.isError
                THEN ErrorObj(msg.err.name, msg.err.message)
                ELSE Undefined)

\* msg.type; 0 stands for a message without the key.
typeOf(msg) == IF "type" \in DOMAIN msg THEN msg.type ELSE 0

\* A variant of receiveOneMessage without the hostID filter.
receiveOneMessageUnfiltered(s, msg) ==
    IF s.disposed THEN s
    ELSE IF Truthy(Get(msg, "setHostID"))
    THEN [s EXCEPT !.messageToSendHostId = msg.setHostID]
    ELSE CASE typeOf(msg) = Request -> receiveRequest(s, msg)
           [] typeOf(msg) = Reply -> receiveReply(s, msg)
           [] typeOf(msg) = ReplyErr -> receiveReplyErr(s, msg)
           [] typeOf(msg) = Cancel -> receiveCancel(s, msg)
           [] OTHER -> s

\* A variant of receiveOneMessage without the isDisposed test.
receiveOneMessageAlways(s, msg) ==
    IF Truthy(Get(msg, "setHostID"))
    THEN [s EXCEPT !.messageToSendHostId = msg.setHostID]
    ELSE CASE typeOf(msg) = Request -> receiveRequest(s, msg)
           [] typeOf(msg) = Reply -> receiveReply(s, msg)
           [] typeOf(msg) = ReplyErr -> receiveReplyErr(s, msg)
           [] typeOf(msg) = Cancel -> receiveCancel(s, msg)
           [] OTHER -> s

\* receiveOneMessage(rawmsg)
receiveOneMessage(s, msg) ==
    IF s.disposed THEN s
    ELSE IF Truthy(Get(msg, "setHostID"))
    THEN [s EXCEPT !.messageToSendHostId = msg.setHostID]
    ELSE IF /\ Truthy(s.remoteHostID)
            /\ Truthy(Get(msg, "hostID"))
            /\ s.remoteHostID # Get(msg, "hostID")
    THEN s
    ELSE CASE typeOf(msg) = Request -> receiveRequest(s, msg)
           [] typeOf(msg) = Reply -> receiveReply(s, msg)
           [] typeOf(msg) = ReplyErr -> receiveReplyErr(s, msg)
           [] typeOf(msg) = Cancel -> receiveCancel(s, msg)
           [] OTHER -> s

\* The listener the multiplexer subscribes to connection.onMessage: every
\* element of the batch, in order; a disposed multiplexer no longer listens.
RECURSIVE onMessage(_, _)
onMessage(s, data) ==
    IF data = << >> THEN s
    ELSE onMessage(receiveOneMessage(
                       [s EXCEPT !.received = Append(@, Head(data))],
                       Head(data)),
                   Tail(data))

connectionOnMessage(s, data) ==
    IF s.muxDisposed THEN s ELSE onMessage(s, data)

\* ---------------------------------------------------------- TextmateRegistry
\* scopeToProvider is a Map: a function whose domain is the scopes that have
\* an entry.  registrations records, for each Disposable that
\* registerTextmateGrammarScope returned, what its closure captured and
\* whether it has been disposed.
newTextmateRegistry == [scopeToProvider |-> << >>, registrations |-> << >>]

Scopes == {"source.a", "source.b"}

Providers == {"p1", "p2"}

\* What Map.get gives for a scope without an entry.
NoProvider == "undefined"

MaxRegistrations == 3

\* TextmateRegistry.getProvider(scope)
textmateGetProvider(r, scope) ==
    IF scope \in DOMAIN r.scopeToProvider THEN r.scopeToProvider[scope]
    ELSE NoProvider

mapSet(m, k, v) == [x \in DOMAIN m \cup {k} |-> IF x = k THEN v ELSE m[x]]

mapDelete(m, k) == [x \in DOMAIN m \ {k} |-> m[x]]

\* registerTextmateGrammarScope(scope, description): the new provider
\* replaces the entry, and the Disposable returned remembers the provider
\* that was there.  The warning it may log changes nothing.
registerTextmateGrammarScope(r, scope, description) ==
    LET existingProvider == textmateGetProvider(r, scope)
    IN  [scopeToProvider |-> mapSet(r.scopeToProvider, scope, description),
         registrations |->
             Append(r.registrations,
                    [scope |-> scope, description |-> description,
                     existingProvider |-> existingProvider,
                     disposed |-> FALSE])]

\* dispose() of the k-th Disposable returned: deletes the entry of the scope
\* and puts back the provider remembered, if there was one.
disposeRegistration(r, k) ==
    LET d == r.registrations[k]
        deleted == mapDelete(r.scopeToProvider, d.scope)
    IN  [scopeToProvider |->
             IF d.existingProvider # NoProvider
             THEN mapSet(deleted, d.scope, d.existingProvider)
             ELSE deleted,
         registrations |-> [r.registrations EXCEPT ![k].disposed = TRUE]]

\* -------------------------------------------------------------- the system
\* rpc[e] is engine e; wire[e] holds the batches the connection carries to e,
\* oldest first; transfer is a value on its way through the
\* ObjectsTransferrer (idle while the engines run); textmate is the
\* TextmateRegistry (empty while the engines run).
VARIABLES rpc, wire, transfer, textmate

vars == <<rpc, wire, transfer, textmate>>

idle == [stage |-> "idle"]

userToken == Token("user")

\* The proxy calls a side makes: identifier, member and arguments.  Side 1
\* uses the whole interface of its peer, with and without its token; side 2
\* calls one method back.
CallInputs(e) ==
    IF e = 1
    THEN {<<"A", "$greet", <<Str("bob")>> >>,
          <<"A", "$greet", <<Str("bob"), userToken>> >>,
          <<"A", "$void", << >> >>,
          <<"A", "$null", << >> >>,
          <<"A", "$fail", << >> >>,
          <<"A", "$reject", << >> >>,
          <<"A", "$text", << >> >>,
          <<"A", "$x", << >> >>,
          <<"A", "$wait", <<userToken>> >>,
          <<"B", "$greet", <<Str("bob")>> >>}
    ELSE {<<"A", "$greet", <<Str("bob")>> >>}

\* The sides whose caller owns a cancellation token.
TokenOwners == {1}

Init ==
    /\ rpc = [e \in Engines |-> newEngine(Undefined)]
    /\ wire = [e \in Engines |-> << >>]
    /\ transfer = idle
    /\ textmate = newTextmateRegistry

calls == rpc[1].ncalls + rpc[2].ncalls

\* What the caller sees of a call: the call is counted, a call that was sent
\* is recorded with the arguments the caller gave, and a promise that is
\* rejected on the spot is recorded with the state of the token passed.
observe(s, r, args) ==
    [r.s EXCEPT !.ncalls = @ + 1,
                !.made = IF r.id = "" THEN @
                         ELSE Append(@, [id |-> r.id, args |-> args]),
                !.rejections =
                    IF r.id = "" 
                    THEN Append(@, [error |-> r.error,
                                    disposed |-> s.disposed,
                                    cancelledToken |->
                                        /\ Len(args) > 0
                                        /\ Last(args) = userToken
                                        /\ s.userToken.cancelled])
                    ELSE @]

\* getProxy(proxyId).$method(args) on a live engine e.
Call(e, proxyId, method, args) ==
    /\ calls < MaxCalls
    /\ ~rpc[e].disposed
    /\ rpc' = [rpc EXCEPT ![e] =
                 observe(@, remoteCall(getProxy(@, proxyId).s, proxyId,
                                       method, args), args)]
    /\ UNCHANGED <<wire, transfer, textmate>>

\* $method(args) on a proxy obtained before engine e was disposed.
CallDisposed(e, proxyId, method, args) ==
    /\ calls < MaxCalls
    /\ rpc[e].disposed
    /\ proxyId \in rpc[e].obtained
    /\ rpc' = [rpc EXCEPT ![e] =
                 observe(@, remoteCall(@, proxyId, method, args), args)]
    /\ UNCHANGED <<wire, transfer, textmate>>

\* set(identifier, instance) on engine e.
Set(e) ==
    /\ rpc' = [rpc EXCEPT ![e] = set(@, "A", "plain").s]
    /\ UNCHANGED <<wire, transfer, textmate>>

\* The caller cancels its token.
CancelToken(e) ==
    /\ rpc' = [rpc EXCEPT ![e] = cancelUserToken(@)]
    /\ UNCHANGED <<wire, transfer, textmate>>

Dispose(e) ==
    /\ rpc' = [rpc EXCEPT ![e] = dispose(@)]
    /\ UNCHANGED <<wire, transfer, textmate>>

\* A queued sendAccumulated runs: connection.send(batch).
Flush(e) ==
    /\ rpc[e].scheduled > 0
    /\ rpc' = [rpc EXCEPT ![e] = sendAccumulated(@)]
    /\ wire' = [wire EXCEPT ![Peer(e)] = Append(@, rpc[e].messagesToSend)]
    /\ UNCHANGED <<transfer, textmate>>

\* The connection delivers the oldest batch to e.
Deliver(e) ==
    /\ wire[e] # << >>
    /\ rpc' = [rpc EXCEPT ![e] = connectionOnMessage(@, Head(wire[e]))]
    /\ wire' = [wire EXCEPT ![e] = Tail(@)]
    /\ UNCHANGED <<transfer, textmate>>

\* The promise of a handler invocation settles and its then-callbacks run.
Settle(e) ==
    /\ \E r \in rpc[e].running : rpc' = [rpc EXCEPT ![e] = thenCallbacks(@, r)]
    /\ UNCHANGED <<wire, transfer, textmate>>

Next ==
    \E e \in Engines :
        \/ \E c \in CallInputs(e) : Call(e, c[1], c[2], c[3])
        \/ \E c \in CallInputs(e) : CallDisposed(e, c[1], c[2], c[3])
        \/ Set(e)
        \/ e \in TokenOwners /\ CancelToken(e)
        \/ Dispose(e)
        \/ Flush(e)
        \/ Deliver(e)
        \/ Settle(e)

Spec == Init /\ [][Next]_vars

\* The connection as an open channel: besides the peer's batches it may
\* deliver a Reply, a ReplyError or a Cancel that names a call id the
\* receiving engine has never sent (a duplicate, a restarted peer).
\* The ids tried are the next one the engine would allocate and one it never
\* allocates.  The log of received messages keeps to the peer's messages.
StrayIds(e) ==
    {ToString(rpc[e].lastMessageId + 1), ToString(MaxCalls + 1)}

StrayMessages(e) ==
    UNION {{replyOK(id, Str("stray"), Undefined),
            replyErr(id, ErrorObj("Error", "stray"), Undefined),
            cancel(id, Undefined)} : id \in StrayIds(e)}

Inject(e, m) ==
    /\ rpc' = [rpc EXCEPT ![e] = [connectionOnMessage(@, <<m>>)
                                     EXCEPT !.received = rpc[e].received]]
    /\ UNCHANGED <<wire, transfer, textmate>>

NextOpen ==
    \/ Next
    \/ \E e \in Engines : \E m \in StrayMessages(e) : Inject(e, m)

SpecOpen == Init /\ [][NextOpen]_vars

\* Two sides of a shared channel: side 1 is constructed with the remoteHostID
\* filter "h1", so that its multiplexer starts with the setHostID control
\* record, side 2 without a filter.  Side 1 calls a method that returns and
\* one that fails, side 2 a method that takes its token.  The channel also
\* carries what another host wrote: messages with the hostID "h2" reach the
\* filtering side, and a second control record reaches its peer.
HostId == Str("h1")

OtherHostId == Str("h2")

InitHost ==
    /\ rpc = [e \in Engines |->
                 IF e = 1 THEN newEngine(HostId) ELSE newEngine(Undefined)]
    /\ wire = [e \in Engines |-> << >>]
    /\ transfer = idle
    /\ textmate = newTextmateRegistry

HostCallInputs(e) ==
    IF e = 1
    THEN {<<"A", "$greet", <<Str("bob")>> >>, <<"A", "$fail", << >> >>}
    ELSE {<<"A", "$wait", <<userToken>> >>}

\* The messages of another host, for the call ids in use.
HostMessages(e) ==
    IF e = 1
    THEN UNION {{request(id, "A", "$greet", <<Str("eve")>>, OtherHostId),
                 replyOK(id, Str("stray"), OtherHostId),
                 replyErr(id, ErrorObj("Error", "stray"), OtherHostId),
                 cancel(id, OtherHostId)} : id \in {"1", "2"}}
    ELSE {setHostIDMessage(OtherHostId)}

NextHost ==
    \E e \in Engines :
        \/ \E c \in HostCallInputs(e) : Call(e, c[1], c[2], c[3])
        \/ Set(e)
        \/ e = 2 /\ CancelToken(e)
        \/ Flush(e)
        \/ Deliver(e)
        \/ Settle(e)
        \/ \E m \in HostMessages(e) : Inject(e, m)

SpecHost == InitHost /\ [][NextHost]_vars

\* The two sides without disposal, where every queued sendAccumulated runs
\* and the connection delivers every batch: setImmediate callbacks and the
\* connection's message events are not starved.
LiveCallInputs(e) ==
    IF e = 1
    THEN {<<"A", "$greet", <<Str("bob")>> >>,
          <<"A", "$wait", <<userToken>> >>,
          <<"B", "$greet", <<Str("bob")>> >>}
    ELSE {<<"A", "$greet", <<Str("bob")>> >>}

NextLive ==
    \E e \in Engines :
        \/ \E c \in LiveCallInputs(e) : Call(e, c[1], c[2], c[3])
        \/ Set(e)
        \/ e \in TokenOwners /\ CancelToken(e)
        \/ Flush(e)
        \/ Deliver(e)
        \/ Settle(e)

SpecLive ==
    /\ Init
    /\ [][NextLive]_vars
    /\ \A e \in Engines : WF_vars(Flush(e)) /\ WF_vars(Deliver(e))

\* The registry of grammar providers: providers are registered for a scope
\* and the Disposables returned are disposed, each once, in any order.
RegisterTextmateGrammarScope(scope, description) ==
    /\ Len(textmate.registrations) < MaxRegistrations
    /\ textmate' = registerTextmateGrammarScope(textmate, scope, description)
    /\ UNCHANGED <<rpc, wire, transfer>>

DisposeRegistration(k) ==
    /\ ~textmate.registrations[k].disposed
    /\ textmate' = disposeRegistration(textmate, k)
    /\ UNCHANGED <<rpc, wire, transfer>>

NextTextmate ==
    \/ \E scope \in Scopes : \E description \in Providers :
           RegisterTextmateGrammarScope(scope, description)
    \/ \E k \in DOMAIN textmate.registrations : DisposeRegistration(k)

SpecTextmate == Init /\ [][NextTextmate]_vars

\* The two sides, never disposed, with callers that pass every kind of
\* argument: a string, null, undefined, the caller's token, and the string
\* that is the marker.
ArgsCallInputs(e) ==
    IF e = 1
    THEN {<<"A", "$greet", <<Str("bob")>> >>,
          <<"A", "$greet", <<Null>> >>,
          <<"A", "$greet", <<Str("bob"), Undefined>> >>,
          <<"A", "$greet", <<Marker>> >>,
          <<"A", "$greet", <<Str("bob"), userToken>> >>,
          <<"A", "$wait", <<userToken>> >>}
    ELSE {<<"A", "$greet", <<Str("bob")>> >>}

NextArgs ==
    \E e \in Engines :
        \/ \E c \in ArgsCallInputs(e) : Call(e, c[1], c[2], c[3])
        \/ Set(e)
        \/ e \in TokenOwners /\ CancelToken(e)
        \/ Flush(e)
        \/ Deliver(e)
        \/ Settle(e)

SpecArgs == Init /\ [][NextArgs]_vars

\* The two sides with handler instances that are Disposables: an instance
\* is registered once per side, its owner may dispose it, and either side
\* may be disposed.
RegistryCallInputs == {<<"A", "$greet", <<Str("bob")>> >>}

SetDisposable(e) ==
    /\ "A" \notin rpc[e].locals
    /\ rpc' = [rpc EXCEPT ![e] = set(@, "A", "disposable").s]
    /\ UNCHANGED <<wire, transfer, textmate>>

DisposeInstance(e) ==
    /\ "A" \in rpc[e].chained
    /\ rpc' = [rpc EXCEPT ![e] = disposeInstance(@, "A")]
    /\ UNCHANGED <<wire, transfer, textmate>>

NextRegistry ==
    \E e \in Engines :
        \/ \E c \in RegistryCallInputs : Call(e, c[1], c[2], c[3])
        \/ SetDisposable(e)
        \/ DisposeInstance(e)
        \/ Dispose(e)
        \/ Flush(e)
        \/ Deliver(e)
        \/ Settle(e)

SpecRegistry == Init /\ [][NextRegistry]_vars

\* ------------------------------------------------- ObjectsTransferrer laws
\* More JavaScript values: numbers, booleans, arrays, plain objects (a
\* function from keys to values), instances of the host URI class and of the
\* plugin-API URI class.
Num(n) == [t |-> "number", v |-> n]
Bool(b) == [t |-> "boolean", v |-> b]
Arr(items) == [t |-> "array", items |-> items]
Obj(fields) == [t |-> "object", fields |-> fields]
URI(text) == [t |-> "URI", v |-> text]
VSCodeURI(text) == [t |-> "VSCodeURI", v |-> text]

\* value[key] of any value: undefined unless an object has the key.
Prop(value, key) ==
    IF value.t = "object" /\ key \in DOMAIN value.fields
    THEN value.fields[key] ELSE Undefined

\* SerializedObjectType
THEIA_URI == 0
VSCODE_URI == 1
THEIA_RANGE == 2

\* { $type, data } as SerializedObject
SerializedObject(type, data) ==
    Obj([k \in {"$type", "data"} |-> IF k = "$type" THEN Num(type) ELSE data])

\* URI.toString() and new URI(text) of the host URI class.
toString(uri) == Str(uri.v)

newURI(data) == URI(data.v)

\* VSCodeURI.revive(components) and VSCodeURI.parse(text): the instance for
\* the components, written scheme:path, and the instance for a text.
VSCodeURIrevive(value) ==
    VSCodeURI(Prop(value, "scheme").v \o ":" \o Prop(value, "path").v)

VSCodeURIparse(data) == VSCodeURI(data.v)

\* Position.create, Range.create and Range.is of the language-server types.
PositionCreate(line, character) ==
    Obj([k \in {"line", "character"} |->
            IF k = "line" THEN line ELSE character])

RangeCreate(start, end) ==
    Obj([k \in {"start", "end"} |-> IF k = "start" THEN start ELSE end])

PositionIs(value) ==
    /\ value.t = "object"
    /\ Prop(value, "line").t = "number"
    /\ Prop(value, "character").t = "number"

RangeIs(value) ==
    /\ value.t = "object"
    /\ PositionIs(Prop(value, "start"))
    /\ PositionIs(Prop(value, "end"))

\* JSON.stringify(object) is a string that holds the text of the object;
\* JSON.parse gives the object back and throws on any other string.
JSONstringify(value) == [t |-> "string", v |-> "{...}", json |-> value]

thrown == [t |-> "thrown", v |-> "SyntaxError"]

JSONparse(text) == IF "json" \in DOMAIN text THEN text.json ELSE thrown

\* ObjectsTransferrer.replacer(key, value)
replacer(value) ==
    IF value.t = "URI"
    THEN SerializedObject(THEIA_URI, toString(value))
    ELSE IF RangeIs(value)
    THEN SerializedObject(THEIA_RANGE,
             JSONstringify(RangeCreate(
                 PositionCreate(Prop(Prop(value, "start"), "line"),
                                Prop(Prop(value, "start"), "character")),
                 PositionCreate(Prop(Prop(value, "end"), "line"),
                                Prop(Prop(value, "end"), "character")))))
    ELSE IF Prop(value, "$mid") = Num(1)
    THEN SerializedObject(VSCODE_URI, toString(VSCodeURIrevive(value)))
    ELSE value

\* isSerializedObject(obj)
isSerializedObject(obj) ==
    /\ obj.t = "object"
    /\ Prop(obj, "$type") # Undefined
    /\ Prop(obj, "data") # Undefined

\* ObjectsTransferrer.reviver(key, value)
reviver(value) ==
    IF ~isSerializedObject(value) THEN value
    ELSE CASE Prop(value, "$type") = Num(THEIA_URI) ->
                newURI(Prop(value, "data"))
           [] Prop(value, "$type") = Num(VSCODE_URI) ->
                VSCodeURIparse(Prop(value, "data"))
           [] Prop(value, "$type") = Num(THEIA_RANGE) ->
                LET obj == JSONparse(Prop(value, "data"))
                IN  IF obj = thrown THEN thrown
                    ELSE RangeCreate(
                             PositionCreate(Prop(Prop(obj, "start"), "line"),
                                 Prop(Prop(obj, "start"), "character")),
                             PositionCreate(Prop(Prop(obj, "end"), "line"),
                                 Prop(Prop(obj, "end"), "character")))
           [] OTHER -> value

\* The values put through the transferrer: host URIs, plugin-API URIs as
\* their toJSON data marked $mid = 1, Ranges, and other JSON values:
\* primitives, arrays and plain objects, among them objects that have keys
\* named $type, data or $mid.
MaxLine == 1

Texts == {"file:///a", "file:///b", "http://h/c"}

Positions ==
    {PositionCreate(Num(l), Num(c)) : l \in 0..MaxLine, c \in 0..MaxLine}

Marked(mid, scheme, path) ==
    Obj([k \in {"$mid", "scheme", "path"} |->
            IF k = "$mid" THEN Num(mid)
            ELSE IF k = "scheme" THEN Str(scheme) ELSE Str(path)])

Transferrable ==
    {URI(x) : x \in Texts}
    \cup {Marked(1, scheme, path) : scheme \in {"file", "http"},
                                    path \in {"/a", "/b"}}
    \cup {RangeCreate(p, q) : p \in Positions, q \in Positions}

Others ==
    {Str("a"), Str(""), Num(0), Num(1), Bool(TRUE), Bool(FALSE), Null,
     Arr(<< >>), Arr(<<Num(1), Str("a")>>),
     Obj(<< >>), Obj([k \in {"a"} |-> Num(1)]),
     Obj([k \in {"$type"} |-> Num(THEIA_URI)]),
     Obj([k \in {"data"} |-> Str("file:///a")]),
     Marked(2, "file", "/a")}
    \cup {SerializedObject(type, Str(x)) : type \in 0..3, x \in {"file:///a"}}

TransferValues == Transferrable \cup Others

InitTransfer ==
    /\ rpc = [e \in Engines |-> newEngine(Undefined)]
    /\ wire = [e \in Engines |-> << >>]
    /\ transfer \in {[stage |-> "value", value |-> v] : v \in TransferValues}
    /\ textmate = newTextmateRegistry

\* JSON.stringify calls the replacer with the value.
Replace ==
    /\ transfer.stage = "value"
    /\ transfer' = [stage |-> "replaced", value |-> transfer.value,
                    replaced |-> replacer(transfer.value)]
    /\ UNCHANGED <<rpc, wire, textmate>>

\* JSON.parse calls the reviver with what was written.
Revive ==
    /\ transfer.stage = "replaced"
    /\ transfer' = [stage |-> "revived", value |-> transfer.value,
                    revived |-> reviver(transfer.replaced)]
    /\ UNCHANGED <<rpc, wire, textmate>>

NextTransfer == Replace \/ Revive

SpecTransfer == InitTransfer /\ [][NextTransfer]_vars

\* ------------------------------------------------------------ observations
\* The messages of one type among those engine e handed to its multiplexer.
Handed(e, type) == SelectSeq(rpc[e].handed, LAMBDA m : typeOf(m) = type)

\* How many of them carry the call id.
Count(e, type, id) ==
    Len(SelectSeq(rpc[e].handed, LAMBDA m : typeOf(m) = type /\ m.id = id))

\* The call ids engine e has allocated, and the number an id is written from.
CallIds(e) == DOMAIN rpc[e].promises

idNumber(id) == CHOOSE n \in 0..(MaxCalls + 1) : ToString(n) = id

RECURSIVE Flatten(_)
Flatten(batches) ==
    IF batches = << >> THEN << >> ELSE Head(batches) \o Flatten(Tail(batches))

InSeq(x, q) == \E k \in 1..Len(q) : q[k] = x

\* The requests engine e received, and those of them for which a handler
\* was invoked with the request id.
Requests(e) == {rpc[e].requests[k] : k \in 1..Len(rpc[e].requests)}

Invocations(e, id) == {r \in Requests(e) : r.called /\ r.id = id}

\* The then-callbacks of the request r have run on engine e.
Settled(e, r) == \A x \in rpc[e].running : x.id # r.id

\* What the handler of the invocation r on engine e comes to.
Outcome(e, r) == apply(r.method, r.args, rpc[e].tokenCancelled)

\* Nothing is in flight, queued or running, and both engines are live.
Quiet ==
    \A e \in Engines :
        /\ wire[e] = << >>
        /\ rpc[e].scheduled = 0
        /\ rpc[e].running = {}
        /\ ~rpc[e].disposed

\* ------------------------------------------------------------------ claims

\* C1: a call on a live engine to a registered handler whose method returns
\* v puts exactly one Request with the call's id on the wire, is answered by
\* exactly one Reply with that id, handed over only after the Request was
\* transmitted, and the caller's promise resolves with v: a resolved promise
\* holds the handler's value, and once both live engines are quiet every
\* such call has resolved.
C1_CallResolves ==
    \A e \in Engines : \A id \in CallIds(e) :
        LET p == Peer(e)
            promise == rpc[e].promises[id]
        IN  /\ Count(e, Request, id) = 1
            /\ Count(p, Reply, id) <= 1
            /\ Count(p, Reply, id) = 1 =>
                 \E m \in {rpc[e].handed[k] : k \in 1..Len(rpc[e].handed)} :
                     /\ typeOf(m) = Request /\ m.id = id
                     /\ InSeq(m, Flatten(rpc[e].transmitted))
            /\ promise.state = "resolved" =>
                 /\ Count(p, Reply, id) = 1
                 /\ \E r \in Invocations(p, id) :
                        /\ Outcome(p, r).state = "fulfilled"
                        /\ promise.value = Outcome(p, r).value
            /\ Quiet =>
                 \A r \in Invocations(p, id) :
                     Outcome(p, r).state = "fulfilled" =>
                         /\ promise.state = "resolved"
                         /\ promise.value = Outcome(p, r).value
                         /\ promise.settles = 1

\* A call of $greet("bob") has resolved with "hi bob" and all is quiet.
C1_Witness ==
    /\ Quiet
    /\ \E e \in Engines : \E id \in CallIds(e) :
           /\ rpc[e].promises[id].state = "resolved"
           /\ rpc[e].promises[id].value = Str("hi bob")
           /\ Count(e, Request, id) = 1
           /\ Count(Peer(e), Reply, id) = 1

IsPrefix(q, r) == Len(q) <= Len(r) /\ SubSeq(r, 1, Len(q)) = q

\* Every message send has accepted is in a transmitted batch or in the
\* buffer, in the order of the sends, and a flush is queued exactly while
\* the buffer holds a message.
Batched(e) ==
    /\ Flatten(rpc[e].transmitted) \o rpc[e].messagesToSend = rpc[e].handed
    /\ rpc[e].scheduled = IF rpc[e].messagesToSend = << >> THEN 0 ELSE 1

\* A connection.send of engine e in this step is one batch, the whole buffer.
FlushesBuffer(e) ==
    rpc'[e].transmitted # rpc[e].transmitted =>
        /\ rpc'[e].transmitted =
               Append(rpc[e].transmitted, rpc[e].messagesToSend)
        /\ rpc'[e].messagesToSend = << >>
        /\ rpc'[e].handed = rpc[e].handed

C3_DisposeRejectsPending ==
    /\ [](\A e \in Engines : rpc[e].disposed =>
            /\ rpc[e].pendingRPCReplies = {}
            /\ rpc[e].muxDisposed
            /\ \A id \in CallIds(e) :
                   /\ rpc[e].promises[id].state # "pending"
                   /\ rpc[e].promises[id].settles = 1
            /\ dispose(rpc[e]) = rpc[e])
    /\ [][\A e \in Engines :
            /\ (~rpc[e].disposed /\ rpc'[e].disposed) =>
                 \A id \in CallIds(e) :
                     rpc'[e].promises[id] =
                         IF id \in rpc[e].pendingRPCReplies
                         THEN [state |-> "rejected", value |-> closed,
                               settles |-> 1]
                         ELSE rpc[e].promises[id]
            /\ rpc[e].disposed =>
                 /\ rpc'[e].disposed
                 /\ rpc'[e].promises = rpc[e].promises
                 /\ rpc'[e].handed = rpc[e].handed
                 /\ rpc'[e].messagesToSend = << >>]_vars

\* A disposed engine has rejected a pending call and has since refused a send.
C3_Witness ==
    \E e \in Engines :
        /\ rpc[e].disposed
        /\ rpc[e].raised > 0
        /\ \E id \in CallIds(e) :
               rpc[e].promises[id] =
                   [state |-> "rejected", value |-> closed, settles |-> 1]

\* No Reply and no ReplyError has settled the call id of engine e.
Unanswered(e, id) ==
    \/ rpc[e].promises[id].state = "pending"
    \/ rpc[e].promises[id].value = closed

\* The calls of engine e that were made with the caller's token.
TokenCalls(e) ==
    {rpc[e].userToken.listeners[k] : k \in 1..Len(rpc[e].userToken.listeners)}

\* C4, as stated: once the token of a call has been cancelled with no Reply
\* received for the call, exactly one Cancel with the call's id was sent.
C4_AsStated ==
    \A e \in TokenOwners : \A id \in TokenCalls(e) :
        (rpc[e].userToken.cancelled /\ Unanswered(e, id)) =>
            Count(e, Cancel, id) = 1

\* C4, amended: cancelling the token of a call before any Reply has arrived,
\* on an engine that is not disposed, sends exactly one Cancel, which carries
\* the call's id; on a disposed engine the cancellation sends nothing.  No
\* Cancel is sent before the token fires and never a second one.
C4_CancelSentOnce ==
    /\ [](\A e \in TokenOwners : \A id \in CallIds(e) :
            /\ Count(e, Cancel, id) <= 1
            /\ Count(e, Cancel, id) = 1 =>
                 rpc[e].userToken.cancelled /\ id \in TokenCalls(e)
            /\ (rpc[e].userToken.cancelled /\ id \in TokenCalls(e)
                /\ rpc[e].promises[id].state = "pending") =>
                 Count(e, Cancel, id) = 1)
    /\ [][\A e \in TokenOwners :
            (~rpc[e].userToken.cancelled /\ rpc'[e].userToken.cancelled) =>
                /\ \A id \in TokenCalls(e) :
                       Count(e, Cancel, id)' =
                           IF rpc[e].disposed THEN 0 ELSE 1
                /\ Len(rpc'[e].handed) - Len(rpc[e].handed) =
                       IF rpc[e].disposed THEN 0
                       ELSE Len(rpc[e].userToken.listeners)]_vars

\* The token of a call still pending has been cancelled and its Cancel sent.
C4_Witness ==
    \E e \in TokenOwners : \E id \in TokenCalls(e) :
        /\ rpc[e].userToken.cancelled
        /\ rpc[e].promises[id].state = "pending"
        /\ Count(e, Cancel, id) = 1

\* C5, as stated: a call whose last argument is a cancelled token is rejected
\* with the 'Canceled' error.
C5_AsStated ==
    \A e \in Engines : \A k \in 1..Len(rpc[e].rejections) :
        rpc[e].rejections[k].cancelledToken =>
            rpc[e].rejections[k].error = canceled

\* The proxy calls of engine e that pass the caller's token.
TokenInputs(e) ==
    {c \in CallInputs(e) : Len(c[3]) > 0 /\ Last(c[3]) = userToken}

\* C5, amended: a call whose last argument is a cancelled token is rejected
\* on the spot, with the 'Canceled' error on a live engine and with
\* 'connection is closed' on a disposed one; either way no message is handed
\* to the multiplexer and the call-id counter, the pending table and the
\* rest of the engine are as before.
C5_CancelledCallRejected ==
    /\ [](\A e \in TokenOwners :
            /\ \A k \in 1..Len(rpc[e].rejections) :
                   rpc[e].rejections[k].cancelledToken =>
                       rpc[e].rejections[k].error =
                           IF rpc[e].rejections[k].disposed THEN closed
                           ELSE canceled
            /\ rpc[e].userToken.cancelled =>
                   \A c \in TokenInputs(e) :
                       remoteCall(rpc[e], c[1], c[2], c[3]) =
                           [s |-> rpc[e], id |-> "",
                            error |-> IF rpc[e].disposed THEN closed
                                      ELSE canceled,
                            thrown |-> Undefined])
    /\ [][\A e \in Engines :
            rpc'[e].rejections # rpc[e].rejections =>
                rpc'[e] = [rpc[e] EXCEPT
                              !.ncalls = @ + 1,
                              !.rejections = rpc'[e].rejections,
                              !.proxies = rpc'[e].proxies,
                              !.obtained = rpc'[e].obtained]]_vars

\* A call with a cancelled token was rejected with 'Canceled' on a live
\* engine that has a call pending.
C5_Witness ==
    \E e \in TokenOwners : \E k \in 1..Len(rpc[e].rejections) :
        /\ rpc[e].rejections[k].cancelledToken
        /\ ~rpc[e].rejections[k].disposed
        /\ rpc[e].rejections[k].error = canceled
        /\ rpc[e].pendingRPCReplies # {}

\* What receiving the single message m does to engine e, the log of the
\* messages received aside.
Receiving(e, m) ==
    [connectionOnMessage(rpc[e], <<m>>) EXCEPT !.received = rpc[e].received]

\* C6, as stated: a Reply, a ReplyError or a Cancel that names a call id the
\* engine never sent leaves the engine as it is.
C6_AsStated ==
    \A e \in Engines : \A m \in StrayMessages(e) : Receiving(e, m) = rpc[e]

\* C6, amended: a Reply or a ReplyError that names a call id the engine never
\* sent leaves the engine as it is, and so does a Cancel whose id has no
\* entry in the cancellation-source table; a Cancel whose id is that of a
\* running inbound request received with the marker cancels the token of
\* that request, and nothing else, although the engine never sent that id.
C6_StrayIgnored ==
    \A e \in Engines : \A m \in StrayMessages(e) :
        Receiving(e, m) =
            IF /\ typeOf(m) = Cancel
               /\ m.id \in rpc[e].cancellationTokenSources
               /\ ~rpc[e].disposed
            THEN [rpc[e] EXCEPT !.tokenCancelled = @ \cup {m.id}]
            ELSE rpc[e]

\* An engine that has a call pending and a handler running with a token has
\* received a Cancel its peer did not send.
C6_Witness ==
    \E e \in Engines :
        /\ rpc[e].pendingRPCReplies # {}
        /\ rpc[e].cancellationTokenSources # {}
        /\ rpc[e].tokenCancelled # {}
        /\ ~rpc[Peer(e)].userToken.cancelled

\* The ReplyErrors engine e handed over for the request id.
ReplyErrs(e, id) ==
    {rpc[e].handed[k] : k \in {i \in 1..Len(rpc[e].handed) :
        typeOf(rpc[e].handed[i]) = ReplyErr /\ rpc[e].handed[i].id = id}}

Replies(e, id) ==
    {rpc[e].handed[k] : k \in {i \in 1..Len(rpc[e].handed) :
        typeOf(rpc[e].handed[i]) = Reply /\ rpc[e].handed[i].id = id}}

\* The invocation x, running on engine e, is of a handler that fails with
\* an Error.
Fails(e, x) ==
    /\ x.invocation.state = "called"
    /\ Outcome(e, x).state = "rejected"
    /\ Outcome(e, x).value.t = "Error"

\* C7, as stated: when a registered handler fails with an Error, by throwing
\* or by rejecting, the step that handles the failure throws nothing out of
\* the engine's callback and leaves exactly one ReplyError with the
\* request's id sent; a caller rejected by a ReplyError holds the name and
\* the message of the handler's Error.
C7_AsStated ==
    /\ [](\A e \in Engines : \A r \in Requests(e) :
            LET promise == rpc[Peer(e)].promises[r.id]
            IN  (/\ r.called
                 /\ Outcome(e, r).state = "rejected"
                 /\ Outcome(e, r).value.t = "Error"
                 /\ promise.state = "rejected"
                 /\ promise.value # closed) =>
                    promise.value = Outcome(e, r).value)
    /\ [][\A e \in Engines : \A x \in rpc[e].running :
            (Fails(e, x) /\ x \notin rpc'[e].running) =>
                /\ rpc'[e].raised = rpc[e].raised
                /\ Count(e, ReplyErr, x.id)' = 1]_vars

\* The error message doInvokeHandler throws for the request r.
UnknownTarget(r) ==
    IF r.registered
    THEN "Unknown method " \o r.method \o " on actor " \o r.proxyId
    ELSE "Unknown actor " \o r.proxyId

\* C8, as stated: a Request for an unknown identifier or member has been
\* answered by exactly one ReplyError once its invocation has settled.
C8_AsStated ==
    \A e \in Engines : \A r \in Requests(e) :
        (~r.called /\ Settled(e, r)) => Count(e, ReplyErr, r.id) = 1

\* C8, amended: a Request whose identifier has no registration, or whose
\* member is not a function, invokes no handler and, on an engine that is
\* not disposed before the then-callback of the rejected invocation runs, is
\* answered by exactly one ReplyError with its id and the message 'Unknown
\* actor ...' or 'Unknown method ... on actor ...'; on an engine disposed
\* before that, no ReplyError is sent.  An engine that stays live answers
\* every later request.
C8_UnknownTargetReplied ==
    /\ \A e \in Engines : \A r \in Requests(e) :
           /\ r.called <=> (r.registered /\ r.method \in Functions)
           /\ ~r.called =>
                /\ Count(e, ReplyErr, r.id) <= 1
                /\ Count(e, Reply, r.id) = 0
                /\ \A m \in ReplyErrs(e, r.id) :
                       m.err = [isError |-> TRUE, name |-> "Error",
                                message |-> UnknownTarget(r)]
                /\ (Settled(e, r) /\ ~rpc[e].disposed) =>
                       Count(e, ReplyErr, r.id) = 1
    /\ Quiet =>
           \A e \in Engines : \A r \in Requests(e) :
               Count(e, Reply, r.id) + Count(e, ReplyErr, r.id) = 1

\* An engine has answered a request for an unknown target with a ReplyError
\* and a later request with a Reply.
C8_Witness ==
    /\ Quiet
    /\ \E e \in Engines : \E r1, r2 \in Requests(e) :
           /\ r1.id = "1" /\ ~r1.called /\ Count(e, ReplyErr, "1") = 1
           /\ r2.id = "2" /\ r2.called /\ Count(e, Reply, "2") = 1

\* C9: the Reply for a handler that returned undefined has no res key and
\* resolves the caller with undefined; the Reply for a handler that returned
\* null has res = null and resolves the caller with null.
C9_AbsentResult ==
    \A e \in Engines : \A r \in Requests(e) :
        LET promise == rpc[Peer(e)].promises[r.id]
            result == Outcome(e, r).value
        IN  (r.called /\ Outcome(e, r).state = "fulfilled") =>
                /\ result = Undefined =>
                     /\ \A m \in Replies(e, r.id) : "res" \notin DOMAIN m
                     /\ promise.state = "resolved" =>
                            promise.value = Undefined
                /\ result = Null =>
                     /\ \A m \in Replies(e, r.id) :
                            "res" \in DOMAIN m /\ m.res = Null
                     /\ promise.state = "resolved" => promise.value = Null

\* One call has resolved with undefined and another with null.
C9_Witness ==
    \E e \in Engines : \E r1, r2 \in Requests(e) :
        /\ r1.called /\ Outcome(e, r1).value = Undefined
        /\ r2.called /\ Outcome(e, r2).value = Null
        /\ Replies(e, r1.id) # {} /\ Replies(e, r2.id) # {}
        /\ rpc[Peer(e)].promises[r1.id] =
               [state |-> "resolved", value |-> Undefined, settles |-> 1]
        /\ rpc[Peer(e)].promises[r2.id] =
               [state |-> "resolved", value |-> Null, settles |-> 1]

\* What a disposed engine keeps fixed: registrations, proxies, the call-id
\* counter, the pending table and the messages handed to the multiplexer.
Tables(s) ==
    <<s.locals, s.proxies, s.lastMessageId, s.pendingRPCReplies, s.handed>>

\* C11, as stated: on a disposed engine getProxy, set and a call through a
\* proxy each throw 'connection is closed' at the caller and leave the
\* engine as it is.
C11_AsStated ==
    \A e \in Engines : rpc[e].disposed =>
        /\ \A id \in ProxyIds :
               /\ getProxy(rpc[e], id) = throw(rpc[e], closed)
               /\ (\A instance \in Instances :
                       set(rpc[e], id, instance) = throw(rpc[e], closed))
        /\ \A c \in CallInputs(1) :
               LET ret == remoteCall(rpc[e], c[1], c[2], c[3])
               IN  ret.s = rpc[e] /\ ret.thrown = closed

\* C11, amended: on a disposed engine getProxy and set throw 'connection is
\* closed' at the caller, and a call through a proxy obtained earlier throws
\* nothing and returns a promise already rejected with 'connection is
\* closed'; none of them changes the engine, and no step of a disposed
\* engine registers a handler, creates a proxy, allocates a call id, adds a
\* pending entry or hands a message to the multiplexer.
C11_DisposedRefuses ==
    /\ [](\A e \in Engines : rpc[e].disposed =>
            /\ \A id \in ProxyIds :
                   /\ getProxy(rpc[e], id) = throw(rpc[e], closed)
                   /\ (\A instance \in Instances :
                           set(rpc[e], id, instance) = throw(rpc[e], closed))
            /\ \A c \in CallInputs(1) :
                   remoteCall(rpc[e], c[1], c[2], c[3]) =
                       [s |-> rpc[e], id |-> "", error |-> closed,
                        thrown |-> Undefined]
            /\ \A k \in 1..Len(rpc[e].rejections) :
                   rpc[e].rejections[k].disposed =>
                       rpc[e].rejections[k].error = closed)
    /\ [][\A e \in Engines :
            rpc[e].disposed => Tables(rpc'[e]) = Tables(rpc[e])]_vars

\* A disposed engine that had a registration, a proxy and a call of its own
\* has refused a call through the proxy.
C11_Witness ==
    \E e \in Engines :
        /\ rpc[e].disposed
        /\ rpc[e].lastMessageId = 1
        /\ rpc[e].obtained # {}
        /\ rpc[e].ncalls = 2
        /\ Len(rpc[e].rejections) = 1
        /\ rpc[e].rejections[1].disposed

\* Messages of every kind, as a peer with or without a host id writes them,
\* for every call id in use.
AnyIds == {ToString(n) : n \in 1..(MaxCalls + 1)}

AnyMessages ==
    UNION {UNION {{request(id, "A", "$greet", <<Str("bob"), Marker>>, h),
                   request(id, "B", "$x", << >>, h),
                   replyOK(id, Str("late"), h),
                   replyErr(id, ErrorObj("Error", "late"), h),
                   cancel(id, h)} : id \in AnyIds} : h \in {Undefined, Str("h1")}}
    \cup {setHostIDMessage(Str("h1"))}

\* C12: a disposed engine drops every inbound message, whatever its kind:
\* receiveOneMessage and the connection listener leave the engine exactly as
\* it is (no handler invoked, no promise settled, no token cancelled, no
\* message sent, nothing raised), and so does the delivery of a batch.
C12_DisposedDrops ==
    /\ [](\A e \in Engines : rpc[e].disposed =>
            \A m \in AnyMessages :
                /\ receiveOneMessage(rpc[e], m) = rpc[e]
                /\ connectionOnMessage(rpc[e], <<m, m>>) = rpc[e])
    /\ [][\A e \in Engines :
            (rpc[e].disposed /\ Len(wire'[e]) < Len(wire[e])) =>
                rpc'[e] = rpc[e]]_vars

\* A disposed engine, with a handler still running and a source in its
\* table, has been delivered a Request it did not process.
C12_Witness ==
    \E e \in Engines :
        /\ rpc[e].disposed
        /\ rpc[e].running # {}
        /\ Len(rpc[Peer(e)].transmitted) = 2
        /\ wire[e] = << >>
        /\ Len(rpc[e].requests) = 1
        /\ Count(Peer(e), Request, "2") = 1

\* The four kinds of message for the call ids in use, as written for the
\* echo host id h.
Written(h) ==
    UNION {{request(id, "A", "$greet", <<Str("bob"), Marker>>, h),
            replyOK(id, Str("late"), h),
            replyErr(id, ErrorObj("Error", "late"), h),
            cancel(id, h)} : id \in AnyIds}

\* The message without its hostID key, and the engine without its filter.
WithoutHost(m) == [f \in DOMAIN m \ {"hostID"} |-> m[f]]

Unfiltered(s) == [s EXCEPT !.remoteHostID = Undefined]

\* C13: an engine constructed with a remoteHostID filter drops every
\* Request, Reply, ReplyError and Cancel that carries another hostID (the
\* engine is left as it is: no handler, no settled call, no cancelled source,
\* no message), and dispatches one that carries the filter's hostID or none
\* exactly as an engine without filter dispatches the bare message: a Request
\* reaches receiveRequest, a Reply or ReplyError of a pending call settles it.
C13_HostFilter ==
    \A e \in Engines : (Truthy(rpc[e].remoteHostID) /\ ~rpc[e].disposed) =>
        /\ \A m \in Written(OtherHostId) : receiveOneMessage(rpc[e], m) = rpc[e]
        /\ \A m \in Written(Undefined) \cup Written(rpc[e].remoteHostID) :
               LET after == receiveOneMessage(rpc[e], m)
               IN  /\ after =
                        [receiveOneMessage(Unfiltered(rpc[e]), WithoutHost(m))
                            EXCEPT !.remoteHostID = rpc[e].remoteHostID]
                   /\ typeOf(m) = Request =>
                        Len(after.requests) = Len(rpc[e].requests) + 1
                   /\ (typeOf(m) \in {Reply, ReplyErr}
                       /\ m.id \in rpc[e].pendingRPCReplies) =>
                        /\ after.promises[m.id].state # "pending"
                        /\ m.id \notin after.pendingRPCReplies

\* The filtering side, with one call pending, has had another call resolved
\* by a Reply that carries the filter's hostID.
C13_Witness ==
    /\ Truthy(rpc[1].remoteHostID)
    /\ rpc[1].pendingRPCReplies # {}
    /\ \E id \in CallIds(1) :
           /\ rpc[1].promises[id].state = "resolved"
           /\ \E m \in Replies(2, id) : Get(m, "hostID") = rpc[1].remoteHostID

\* C19: the setHostID control record with value h only stores h as the echo
\* host id; every message the engine encodes carries as hostID the value
\* stored when it is encoded, the latest one received, and no hostID key
\* while none has been received.
C19_HostIdEcho ==
    /\ [](\A e \in Engines : ~rpc[e].disposed =>
            \A h \in {HostId, OtherHostId} :
                receiveOneMessage(rpc[e], setHostIDMessage(h)) =
                    [rpc[e] EXCEPT !.messageToSendHostId = h])
    /\ [][\A e \in Engines :
            \A k \in (Len(rpc[e].handed) + 1)..Len(rpc'[e].handed) :
                LET m == rpc'[e].handed[k]
                IN  /\ Get(m, "hostID") = rpc[e].messageToSendHostId
                    /\ "hostID" \in DOMAIN m <=>
                           rpc[e].messageToSendHostId # Undefined
                    /\ rpc'[e].messageToSendHostId =
                           rpc[e].messageToSendHostId]_vars

\* An engine has encoded a Request before any control record, a Cancel after
\* the first control record and a Reply after the second.
C19_Witness ==
    \E e \in Engines : \E i, j, k \in 1..Len(rpc[e].handed) :
        /\ i < j /\ j < k
        /\ typeOf(rpc[e].handed[i]) = Request
        /\ "hostID" \notin DOMAIN rpc[e].handed[i]
        /\ typeOf(rpc[e].handed[j]) = Cancel
        /\ Get(rpc[e].handed[j], "hostID") = HostId
        /\ typeOf(rpc[e].handed[k]) = Reply
        /\ Get(rpc[e].handed[k], "hostID") = OtherHostId

\* The value w is equal to v: the same value, or, for the data of a
\* plugin-API URI, the URI instance of these data.
EqualValue(v, w) ==
    IF Prop(v, "$mid") = Num(1) THEN w = VSCodeURIrevive(v) ELSE w = v

\* C14, as stated: reviver(replacer(v)) is equal to v for every host URI,
\* plugin-API URI and Range v, and is v itself for every other JSON value.
C14_AsStated ==
    transfer.stage = "revived" => EqualValue(transfer.value, transfer.revived)

\* A Reply and a ReplyError for the call id.
Answers(id) ==
    {replyOK(id, Str("late"), Undefined),
     replyErr(id, ErrorObj("Error", "late"), Undefined)}

\* The state a promise takes from a message of the type.
SettledBy(type) == IF type = Reply THEN "resolved" ELSE "rejected"

\* C15: the promise of a call is settled at most once, and only by a Reply
\* or ReplyError with its id or by dispose(); a Reply or ReplyError with id i
\* settles the pending call i, removes only its entry from the pending table
\* and leaves every other call and the rest of the engine untouched,
\* whatever the order of the replies; one for a call already settled has no
\* effect.
C15_SettledOnceById ==
    /\ [](\A e \in Engines : \A id \in CallIds(e) :
            /\ rpc[e].promises[id].settles <= 1
            /\ rpc[e].promises[id].state = "pending" <=>
                   id \in rpc[e].pendingRPCReplies
            /\ \A m \in Answers(id) :
                   LET after == receiveOneMessage(rpc[e], m)
                   IN  IF id \in rpc[e].pendingRPCReplies /\ ~rpc[e].disposed
                       THEN /\ after.pendingRPCReplies =
                                   rpc[e].pendingRPCReplies \ {id}
                            /\ after.promises[id].state = SettledBy(typeOf(m))
                            /\ after.promises[id].settles = 1
                            /\ \A j \in CallIds(e) \ {id} :
                                   after.promises[j] = rpc[e].promises[j]
                            /\ [after EXCEPT
                                   !.promises = rpc[e].promises,
                                   !.pendingRPCReplies =
                                       rpc[e].pendingRPCReplies] = rpc[e]
                       ELSE after = rpc[e])
    /\ [][\A e \in Engines : \A id \in CallIds(e) :
            (rpc[e].promises[id] # rpc'[e].promises[id]) =>
                /\ rpc[e].promises[id].state = "pending"
                /\ \/ /\ ~rpc[e].disposed /\ rpc'[e].disposed
                      /\ rpc'[e].promises[id].state = "rejected"
                      /\ rpc'[e].promises[id].value = closed
                   \/ /\ wire[e] # << >> /\ wire'[e] = Tail(wire[e])
                      /\ \E k \in 1..Len(Head(wire[e])) :
                             LET m == Head(wire[e])[k]
                             IN  /\ typeOf(m) \in {Reply, ReplyErr}
                                 /\ m.id = id
                                 /\ rpc'[e].promises[id].state =
                                        SettledBy(typeOf(m))]_vars

\* With two calls in flight the second has been answered first.
C15_Witness ==
    \E e \in Engines :
        /\ CallIds(e) = {"1", "2"}
        /\ rpc[e].promises["2"].state = "resolved"
        /\ rpc[e].promises["1"].state = "pending"
        /\ rpc[e].pendingRPCReplies = {"1"}
        /\ Invocations(Peer(e), "1") # {}

\* C16: without disposal the multiplexers lose, duplicate and reorder
\* nothing: the messages send accepted are, in send order, those of the
\* batches transmitted followed by the buffer, so each is in exactly one
\* batch; the messages given one at a time to the peer's receiveOneMessage
\* followed by those of the batches in flight are the messages transmitted,
\* in the same order; and every message accepted is eventually given to the
\* peer's receiveOneMessage.
C16_NoLossNoReorder ==
    /\ [](\A e \in Engines :
            /\ Flatten(rpc[e].transmitted) \o rpc[e].messagesToSend =
                   rpc[e].handed
            /\ rpc[Peer(e)].received \o Flatten(wire[Peer(e)]) =
                   Flatten(rpc[e].transmitted))
    /\ <>[](\A e \in Engines : rpc[Peer(e)].received = rpc[e].handed)

\* A side has sent two messages in one batch and a third in a later batch,
\* and its peer has been given all three.
C16_Witness ==
    \E e \in Engines :
        /\ Len(rpc[e].transmitted) = 2
        /\ Len(rpc[e].transmitted[1]) = 2
        /\ Len(rpc[e].transmitted[2]) = 1
        /\ rpc[Peer(e)].received = rpc[e].handed

\* The invocation x was given the token of a cancellation source.
WithToken(x) == Len(x.args) > 0 /\ Last(x.args).t = "token"

\* C17: the cancellation-source table holds exactly the ids of the running
\* invocations whose Request ended with the marker: an entry is created
\* only for such a Request, it is gone, after success and after failure,
\* when the Reply or ReplyError is handed to the multiplexer, and the table
\* is empty once every handler has settled.
C17_SourcesOfRunningRequests ==
    /\ [](\A e \in Engines :
            /\ rpc[e].cancellationTokenSources =
                   {x.id : x \in {y \in rpc[e].running : WithToken(y)}}
            /\ rpc[e].running = {} => rpc[e].cancellationTokenSources = {})
    /\ [][\A e \in Engines :
            /\ \A id \in rpc'[e].cancellationTokenSources
                        \ rpc[e].cancellationTokenSources :
                   \E k \in 1..Len(Head(wire[e])) :
                       LET m == Head(wire[e])[k]
                       IN  /\ typeOf(m) = Request /\ m.id = id
                           /\ Len(m.args) > 0 /\ Last(m.args) = Marker
            /\ \A k \in (Len(rpc[e].handed) + 1)..Len(rpc'[e].handed) :
                   typeOf(rpc'[e].handed[k]) \in {Reply, ReplyErr} =>
                       rpc'[e].handed[k].id
                           \notin rpc'[e].cancellationTokenSources]_vars

\* An engine has answered one Request that came with the marker by a Reply
\* and another by a ReplyError, and its table is empty.
C17_Witness ==
    \E e \in Engines : \E r1, r2 \in Requests(e) :
        /\ WithToken(r1) /\ Count(e, Reply, r1.id) = 1
        /\ WithToken(r2) /\ Count(e, ReplyErr, r2.id) = 1
        /\ rpc[e].running = {}
        /\ rpc[e].cancellationTokenSources = {}

\* The requests engine e received with the marker and whose token has been
\* cancelled.
CancelledRequests(e) ==
    {r \in Requests(e) : WithToken(r) /\ r.id \in rpc[e].tokenCancelled}

\* What a Cancel with the id does to the live engine e.
Cancelling(e, id) == receiveOneMessage(rpc[e], cancel(id, Undefined))

CancelsOnlyItsToken(e) ==
    \A id \in AnyIds :
        Cancelling(e, id) =
            IF id \in rpc[e].cancellationTokenSources
            THEN [rpc[e] EXCEPT !.tokenCancelled = @ \cup {id}]
            ELSE rpc[e]

\* C18, as stated: a Cancel for a running request that came with the marker
\* cancels the token of that request and changes nothing else; the request
\* is not completed by it and has exactly one Reply or ReplyError once its
\* handler has settled; any other Cancel is a no-op.
C18_AsStated ==
    \A e \in Engines :
        /\ ~rpc[e].disposed => CancelsOnlyItsToken(e)
        /\ \A r \in CancelledRequests(e) :
               Count(e, Reply, r.id) + Count(e, ReplyErr, r.id) =
                   IF Settled(e, r) THEN 1 ELSE 0

\* C18, amended: the same, the request having exactly one Reply or
\* ReplyError once its handler has settled on an engine that was not
\* disposed before, and none if the engine was disposed before the handler
\* settled.
C18_CancelOnlyCancels ==
    /\ [](\A e \in Engines :
            /\ ~rpc[e].disposed => CancelsOnlyItsToken(e)
            /\ \A r \in CancelledRequests(e) :
                   /\ Count(e, Reply, r.id) + Count(e, ReplyErr, r.id) <= 1
                   /\ ~Settled(e, r) =>
                          Count(e, Reply, r.id) + Count(e, ReplyErr, r.id) = 0
                   /\ (Settled(e, r) /\ ~rpc[e].disposed) =>
                          Count(e, Reply, r.id) + Count(e, ReplyErr, r.id) = 1)
    /\ [][\A e \in Engines : \A x \in rpc[e].running :
            (x.id \in rpc[e].tokenCancelled /\ x \notin rpc'[e].running) =>
                Count(e, Reply, x.id)' + Count(e, ReplyErr, x.id)' =
                    IF rpc[e].disposed THEN 0 ELSE 1]_vars

\* A handler whose token was cancelled by a Cancel while it ran has settled
\* and its one ReplyError, the 'Canceled' error, has been sent.
C18_Witness ==
    \E e \in Engines : \E r \in CancelledRequests(e) :
        /\ ~rpc[e].disposed
        /\ Settled(e, r)
        /\ \E m \in ReplyErrs(e, r.id) : m.err.name = "Canceled"
        /\ Count(e, Reply, r.id) = 0

\* C20, as stated: an identifier whose instance has been disposed has no
\* registration, and no Request is dispatched to an instance that has been
\* disposed; a disposed engine has no registration.
C20_AsStated ==
    \A e \in Engines :
        /\ rpc[e].instanceDisposed \cap rpc[e].locals = {}
        /\ rpc[e].disposed => rpc[e].locals = {}
        /\ \A r \in Requests(e) : r.disposedInstance => ~r.called

\* C20, amended: a registration is removed when the engine is disposed, and
\* only then; a disposed engine has no registration, has disposed the
\* instances it was given and dispatches no Request.  The disposal of the
\* instance alone leaves its registration, and a Request addressed to its
\* identifier is dispatched to it as before.
C20_RemovedWithEngine ==
    /\ [](\A e \in Engines :
            /\ rpc[e].disposed =>
                   rpc[e].locals = {} /\ rpc[e].chained = {}
            /\ rpc[e].chained \subseteq rpc[e].locals
            /\ \A r \in Requests(e) :
                   r.called <=> (r.registered /\ r.method \in Functions))
    /\ [][\A e \in Engines :
            /\ ~(rpc[e].locals \subseteq rpc'[e].locals) =>
                   ~rpc[e].disposed /\ rpc'[e].disposed
            /\ (rpc'[e].instanceDisposed # rpc[e].instanceDisposed
                /\ ~rpc'[e].disposed) => rpc'[e].locals = rpc[e].locals
            /\ rpc[e].disposed => rpc'[e].requests = rpc[e].requests]_vars

\* A Request was dispatched to an instance that had been disposed; the
\* engine has since been disposed and has no registration left.
C20_Witness ==
    \E e \in Engines :
        /\ rpc[e].disposed
        /\ rpc[e].locals = {}
        /\ \E r \in Requests(e) : r.disposedInstance /\ r.called

\* C21, as stated: every batch given to connection.send holds a message, and
\* a disposed multiplexer gives the connection nothing more.
C21_AsStated ==
    /\ [](\A e \in Engines : \A k \in 1..Len(rpc[e].transmitted) :
            rpc[e].transmitted[k] # << >>)
    /\ [][\A e \in Engines :
            rpc[e].muxDisposed =>
                rpc'[e].transmitted = rpc[e].transmitted]_vars

\* C22, as stated: a disposed engine attempts no send, so that neither the
\* then-callbacks of a handler nor the listener of a caller's token throws
\* 'connection is closed'.
C22_AsStated ==
    /\ [](\A e \in Engines : rpc[e].raised = 0)
    /\ [][\A e \in Engines :
            rpc[e].disposed => rpc'[e].handed = rpc[e].handed]_vars

\* The positions of the stream engine e handed to its multiplexer that hold
\* a message of the type.
HandedAt(e, type) ==
    {k \in 1..Len(rpc[e].handed) : typeOf(rpc[e].handed[k]) = type}

\* C24: in the stream an engine hands to its multiplexer, a Cancel names a
\* call id the engine has allocated, and the Request with that id is earlier
\* in the stream.
C24_CancelFollowsRequest ==
    \A e \in Engines : \A k \in HandedAt(e, Cancel) :
        /\ rpc[e].handed[k].id \in CallIds(e)
        /\ \E j \in HandedAt(e, Request) :
               j < k /\ rpc[e].handed[j].id = rpc[e].handed[k].id

\* An engine handed over two Requests and then the Cancel of the first.
C24_Witness ==
    \E e \in Engines : \E k \in HandedAt(e, Cancel) :
        /\ rpc[e].handed[k].id = "1"
        /\ HandedAt(e, Request) = {1, 2}
        /\ k = 3

\* The calls engine e sent, with the arguments the caller gave.
Made(e) == {rpc[e].made[k] : k \in 1..Len(rpc[e].made)}

\* The caller passed a cancellation token as the last argument.
PassedToken(c) == Len(c.args) > 0 /\ Last(c.args).t = "token"

\* C23, as stated: the handler of a Request is given a token of the engine
\* as its last argument exactly when the caller passed a token as the last
\* argument of the call; otherwise the handler is given the caller's
\* arguments as they were, and the call has no cancellation source.
C23_AsStated ==
    \A e \in Engines : \A r \in Requests(e) : \A c \in Made(Peer(e)) :
        (r.called /\ c.id = r.id) =>
            /\ WithToken(r) <=> PassedToken(c)
            /\ WithToken(r) => Last(r.args) = Token(r.id)
            /\ ~PassedToken(c) =>
                   /\ r.args = c.args
                   /\ r.id \notin rpc[e].cancellationTokenSources

\* The registrations of the scope whose Disposable has not been disposed.
LiveRegistrations(scope) ==
    {k \in DOMAIN textmate.registrations :
        /\ textmate.registrations[k].scope = scope
        /\ ~textmate.registrations[k].disposed}

\* C25, as stated: whatever the registrations of a scope and the order in
\* which their Disposables are disposed, getProvider gives no provider all of
\* whose registrations have been disposed, and gives undefined once every
\* registration of the scope has been disposed.
C25_AsStated ==
    \A scope \in Scopes :
        LET provider == textmateGetProvider(textmate, scope)
        IN  /\ provider # NoProvider =>
                   \E k \in LiveRegistrations(scope) :
                       textmate.registrations[k].description = provider
            /\ LiveRegistrations(scope) = {} => provider = NoProvider
====
